---- MODULE Spec2Model ----
(***************************************************************************)
(* Workflow execution engine: the live-update hub (LiveUpdateServer) and   *)
(* the worker interpreter (WorkerInvocation).                              *)
(*                                                                         *)
(* Spec     : the interpreter, one run of one worker drawn from Workers,   *)
(*            with its suspensions, rehydrations, resumes and cancels.     *)
(* SpecHub  : the hub actor fed by the log() calls of two invocations.     *)
(***************************************************************************)
EXTENDS Naturals, Integers, Sequences, FiniteSets, TLC

None == "None"

(***************************************************************************)
(* Bounds                                                                  *)
(***************************************************************************)
\* websocket sessions that attach to the hub
MaxSessions == 2
\* events each invocation publishes to the hub
MaxLog == 2
\* resume / cancel calls made to the API for the run
MaxCalls == 2
\* events one invocation logs before its traversal is cut off; only a
\* worker whose next entries form a cycle gets there
MaxEvents == 8
\* objects the tag of a loop task resolves to
MaxAssets == 2
\* conditions of a group, groups of an expression
MaxConds == 2
MaxGroups == 2
\* tags of a trigger, references of a task
MaxTags == 2
MaxRefs == 2
\* members of the filtered JSON value
MaxKids == 2

(***************************************************************************)
(* Hub: universe                                                           *)
(***************************************************************************)
Exes == {"X", "Y"}
\* invocations feeding the hub: the two tags of execution X; nothing
\* publishes for Y, which sessions may still subscribe to
Runs == {"r1", "r2"}
ExeOf(r) == "X"
SessionIds == 1..MaxSessions

VARIABLES
    \* LiveUpdateServer
    sessions,          \* session id -> client sink
    subscriptions,     \* execution id -> set of session ids
    buffered_message,  \* execution id -> sequence of WorkerLog
    next_session,      \* number of session ids handed out (Uuid::new_v4)
    delivered,         \* client sink -> sequence of WorkerLog it was sent
    logged,            \* run -> number of events it has published
    \* history of the hub, for the ordering properties
    orphaned,          \* execution id -> events published while unsubscribed
    drained,           \* client sink -> the orphaned events at its Subscribe
    dropped,           \* executions emptied by Unsubscribe, no Publish since
    \* interpreter
    worker,            \* task map of the Worker built by from_config
    invs,              \* the WorkerInvocation objects of the run, in creation order,
                       \* each with the events it has sent to the log sink
    persisted,         \* payload held by the persistence endpoint, if any
    calls,             \* resume / cancel calls handled so far
    rejected,          \* those of them that never reached an invocation
    \* loop task
    loop,              \* one execution of Loop::execute by a parent invocation
    \* functions
    pure               \* one application of a function: its arguments, its result

hubVars == <<sessions, subscriptions, buffered_message, next_session,
             delivered, logged, orphaned, drained, dropped>>
invVars == <<worker, invs, persisted, calls, rejected, loop, pure>>
vars == <<sessions, subscriptions, buffered_message, next_session,
          delivered, logged, orphaned, drained, dropped,
          worker, invs, persisted, calls, rejected, loop, pure>>

(***************************************************************************)
(* HashMap helpers                                                         *)
(***************************************************************************)
MapPut(m, k, v) == [x \in DOMAIN m \cup {k} |-> IF x = k THEN v ELSE m[x]]

MapRemove(m, k) == [x \in DOMAIN m \ {k} |-> m[x]]

MapGetOr(m, k, d) == IF k \in DOMAIN m THEN m[k] ELSE d

EmptyMap == [x \in {} |-> {}]

remove_buffered_keeps(buf, exe) == buf

\* self.buffered_message.remove(&exe)
remove_buffered(buf, exe) == MapRemove(buf, exe)

IsPrefix(s, t) == Len(s) <= Len(t) /\ SubSeq(t, 1, Len(s)) = s

(***************************************************************************)
(* Hub: delivery to a client sink                                          *)
(***************************************************************************)
do_send_front(sink, msg) == <<msg>> \o sink

\* Recipient::do_send: the message joins the end of the client's mailbox
do_send(sink, msg) == Append(sink, msg)

RECURSIVE send_all_reversed(_, _)
send_all_reversed(sink, msgs) ==
    IF msgs = <<>> THEN sink
    ELSE do_send(send_all_reversed(sink, Tail(msgs)), Head(msgs))

\* for buf_msg in buffered_msg { msg.client.do_send(buf_msg.clone()) }
RECURSIVE send_all(_, _)
send_all(sink, msgs) ==
    IF msgs = <<>> THEN sink
    ELSE send_all(do_send(sink, Head(msgs)), Tail(msgs))

(***************************************************************************)
(* Hub: Handler<Subscribe>                                                 *)
(***************************************************************************)
Subscribe(exe) ==
    /\ next_session < MaxSessions
    /\ LET session_id == next_session + 1
           client == session_id
           buf == MapGetOr(buffered_message, exe, <<>>)
       IN /\ next_session' = session_id
          /\ sessions' = MapPut(sessions, session_id, client)
          /\ subscriptions' = MapPut(subscriptions, exe,
                 MapGetOr(subscriptions, exe, {}) \cup {session_id})
          /\ delivered' = [delivered EXCEPT ![client] = send_all(@, buf)]
          /\ buffered_message' = remove_buffered(buffered_message, exe)
          /\ drained' = [drained EXCEPT ![client] = orphaned[exe]]
          /\ orphaned' = [orphaned EXCEPT ![exe] = <<>>]
    /\ UNCHANGED <<logged, dropped>>
    /\ UNCHANGED invVars

(***************************************************************************)
(* Hub: Handler<Unsubscribe>                                               *)
(***************************************************************************)
EmptiedBy_every_set_of(id) == {e \in DOMAIN subscriptions : id \in subscriptions[e]}

\* the executions whose subscription set is emptied by removing id
EmptiedBy(id) == {e \in DOMAIN subscriptions : subscriptions[e] \ {id} = {}}

RECURSIVE RemoveAll(_, _)
RemoveAll(m, keys) ==
    IF keys = {} THEN m
    ELSE LET k == CHOOSE x \in keys : TRUE
         IN RemoveAll(remove_buffered(m, k), keys \ {k})

Unsubscribe_keeps_member(id) ==
    /\ id \in DOMAIN sessions
    /\ sessions' = MapRemove(sessions, id)
    /\ UNCHANGED <<subscriptions, buffered_message, dropped>>
    /\ UNCHANGED <<next_session, delivered, logged, orphaned, drained>>
    /\ UNCHANGED invVars

Unsubscribe(id) ==
    /\ id \in DOMAIN sessions
    /\ sessions' = MapRemove(sessions, id)
    /\ subscriptions' = [e \in DOMAIN subscriptions \ EmptiedBy(id) |->
                            subscriptions[e] \ {id}]
    /\ buffered_message' = RemoveAll(buffered_message, EmptiedBy(id))
    /\ dropped' = dropped \cup EmptiedBy(id)
    /\ UNCHANGED <<next_session, delivered, logged, orphaned, drained>>
    /\ UNCHANGED invVars

(***************************************************************************)
(* Hub: Handler<Publish>, reached from WorkerInvocation::log               *)
(***************************************************************************)
\* the WorkerLog of the n-th log() call of run r
WorkerLog(r, n) == [run |-> r, n |-> n]

PublishAlwaysBuffers(exe, msg) ==
    /\ delivered' = [c \in DOMAIN delivered |->
          IF \E s \in MapGetOr(subscriptions, exe, {}) :
                 s \in DOMAIN sessions /\ sessions[s] = c
          THEN do_send(delivered[c], msg) ELSE delivered[c]]
    /\ buffered_message' = MapPut(buffered_message, exe,
          Append(MapGetOr(buffered_message, exe, <<>>), msg))

HandlePublish(exe, msg) ==
    IF exe \in DOMAIN subscriptions
    THEN /\ delivered' = [c \in DOMAIN delivered |->
               IF \E s \in subscriptions[exe] :
                      s \in DOMAIN sessions /\ sessions[s] = c
               THEN do_send(delivered[c], msg) ELSE delivered[c]]
         /\ UNCHANGED buffered_message
    ELSE /\ buffered_message' = MapPut(buffered_message, exe,
               Append(MapGetOr(buffered_message, exe, <<>>), msg))
         /\ UNCHANGED delivered

Publish(r) ==
    /\ logged[r] < MaxLog
    /\ logged' = [logged EXCEPT ![r] = @ + 1]
    /\ HandlePublish(ExeOf(r), WorkerLog(r, logged[r] + 1))
    /\ orphaned' = [orphaned EXCEPT ![ExeOf(r)] =
          IF ExeOf(r) \in DOMAIN subscriptions THEN @
          ELSE Append(@, WorkerLog(r, logged[r] + 1))]
    /\ dropped' = dropped \ {ExeOf(r)}
    /\ UNCHANGED <<sessions, subscriptions, next_session, drained>>
    /\ UNCHANGED invVars

(***************************************************************************)
(* Initial state: LiveUpdateServer::new, nothing dispatched                *)
(***************************************************************************)
\* no Loop::execute under way
IdleLoop == [status |-> "idle"]

InitState ==
    /\ sessions = EmptyMap
    /\ subscriptions = EmptyMap
    /\ buffered_message = EmptyMap
    /\ next_session = 0
    /\ delivered = [c \in SessionIds |-> <<>>]
    /\ logged = [r \in Runs |-> 0]
    /\ orphaned = [e \in Exes |-> <<>>]
    /\ drained = [c \in SessionIds |-> <<>>]
    /\ dropped = {}
    /\ worker = EmptyMap
    /\ invs = <<>>
    /\ persisted = <<>>
    /\ calls = 0
    /\ rejected = 0

\* no function under way
NoCall == [fn |-> "none", done |-> TRUE]

Init == InitState /\ loop = IdleLoop /\ pure = NoCall

NextHub ==
    \/ \E e \in Exes : Subscribe(e)
    \/ \E id \in SessionIds : Unsubscribe(id)
    \/ \E r \in Runs : Publish(r)

SpecHub == Init /\ [][NextHub]_vars

(***************************************************************************)
(* Interpreter: workers                                                    *)
(***************************************************************************)
Kinds == {"endpoint", "webhook", "conditional", "loop", "filter"}
TaskIds == {"A", "B", "C"}

\* Option<Next>: some = FALSE is a task without a next entry
NoNext == [some |-> FALSE, true_branch |-> None, false_branch |-> None]
NextOver(S) ==
    {NoNext} \cup
    {[some |-> TRUE, true_branch |-> t, false_branch |-> f] :
        t \in S \cup {None}, f \in S \cup {None}}

\* a task some next entry of the worker names
Referenced(w, t) ==
    \E u \in DOMAIN w :
        w[u].next.some
        /\ (w[u].next.true_branch = t \/ w[u].next.false_branch = t)

PlainTask == [kind |-> "endpoint", needs_to_wait |-> FALSE, next |-> NoNext]

\* Worker::from_config: the entry task is tasks[0], here A; the references
\* of this family point forward, so that every graph is acyclic, C is a
\* plain final endpoint, and so is B where no next entry names it (a task
\* that cannot be reached is listed once, not once per configuration)
Workers ==
    {w \in {[A |-> a, B |-> b, C |-> c] :
                a \in [kind : Kinds, needs_to_wait : BOOLEAN, next : NextOver({"B", "C"})],
                b \in [kind : Kinds, needs_to_wait : BOOLEAN, next : NextOver({"C"})],
                c \in {PlainTask}} :
        Referenced(w, "B") \/ w["B"] = PlainTask}
WorkerStart == "A"

(***************************************************************************)
(* Interpreter: JSON values, task results, events                          *)
(***************************************************************************)
\* a JSON value: its shape and, once merged by resume, its customOutput key
Json(shape) == [shape |-> shape, custom |-> None]
NoOutput == Json("none")
CustomOutputs == {"v1"}

\* what prepare + render + execute of a task of a kind can come to:
\*   ok     Task::execute returned Ok, with the statusCode of a conditional
\*          or filter and the shape of the value written to outputs
\*   err    Task::execute returned Err
\*   panic  prepare or render_variables panicked (unwrap)
Outcomes(kind) ==
    CASE kind = "endpoint" ->
            {[res |-> "ok", status |-> TRUE, shape |-> sh] : sh \in {"object", "array"}}
            \cup {[res |-> r, status |-> FALSE, shape |-> "none"] : r \in {"err", "panic"}}
      [] kind = "webhook" ->
            {[res |-> "ok", status |-> TRUE, shape |-> "object"]}
            \cup {[res |-> r, status |-> FALSE, shape |-> "none"] : r \in {"err", "panic"}}
      [] kind = "conditional" ->
            {[res |-> "ok", status |-> b, shape |-> "bool"] : b \in BOOLEAN}
            \cup {[res |-> r, status |-> FALSE, shape |-> "none"] : r \in {"err", "panic"}}
      [] kind = "loop" ->
            {[res |-> "ok", status |-> TRUE, shape |-> "null"]}
            \cup {[res |-> r, status |-> FALSE, shape |-> "none"] : r \in {"err", "panic"}}
      [] kind = "filter" ->
            {[res |-> "ok", status |-> b, shape |-> "object"] : b \in BOOLEAN}
            \cup {[res |-> "panic", status |-> FALSE, shape |-> "none"]}

\* WorkerLog as the log sink receives it
Ev(event, react_id, output) ==
    [event |-> event, react_id |-> react_id, output |-> output]

(***************************************************************************)
(* Interpreter: the invocation objects                                     *)
(***************************************************************************)
\* execute(): one invocation, state Pending, no outputs
NewInvocation ==
    [state |-> "Pending", start |-> WorkerStart, latest_task |-> None,
     outputs |-> EmptyMap, assets |-> EmptyMap, next |-> None,
     pc |-> "created", events |-> <<>>]

from_suspended_keeps_waiting(payload, call) ==
    [state |-> "Waiting", start |-> payload.start,
     latest_task |-> payload.latest_task, outputs |-> payload.outputs,
     assets |-> payload.assets, next |-> None, pc |-> call, events |-> <<>>]

\* WorkerInvocation::from_suspended: state is not part of the payload
from_suspended(payload, call) ==
    [state |-> "Pending", start |-> payload.start,
     latest_task |-> payload.latest_task, outputs |-> payload.outputs,
     assets |-> payload.assets, next |-> None, pc |-> call, events |-> <<>>]

\* serde_json::to_value(&self) in suspend()
Payload(inv) ==
    [start |-> inv.start, latest_task |-> inv.latest_task,
     outputs |-> inv.outputs, assets |-> inv.assets]

tasks_get_by_calls(name) ==
    IF name \in DOMAIN worker
    THEN IF calls = 2 /\ name = "B" THEN "C" ELSE name
    ELSE None

\* self.worker.tasks.get(name)
tasks_get(name) == IF name \in DOMAIN worker THEN name ELSE None

\* WorkerInvocation::log: the events join the log sink in call order
emit(inv, evs) == [inv EXCEPT !.events = @ \o evs]

\* trigger -> execute with no tags
Trigger(w) ==
    /\ worker = EmptyMap
    /\ worker' = w
    /\ invs' = <<NewInvocation>>
    /\ UNCHANGED <<persisted, calls>>
    /\ UNCHANGED <<hubVars, rejected, loop, pure>>

\* WorkerInvocation::start, up to the first iteration of run()
Start(i) ==
    /\ invs[i].pc = "created"
    /\ LET nxt == tasks_get(invs[i].start)
           logged_start == emit(invs[i], <<Ev("worker_start", None, NoOutput)>>)
       IN invs' = [invs EXCEPT ![i] = [logged_start EXCEPT
              !.state = "Running", !.next = nxt,
              !.pc = IF nxt = None THEN "returned" ELSE "run"]]
    /\ UNCHANGED <<worker, persisted, calls>>
    /\ UNCHANGED <<hubVars, rejected, loop, pure>>

(***************************************************************************)
(* Interpreter: one iteration of the loop of run()                         *)
(***************************************************************************)
\* branch selection
select_true_always(task, o) == task.next.true_branch

select_branch(task, o) ==
    IF task.kind \in {"conditional", "filter"}
    THEN IF o.status THEN task.next.true_branch ELSE task.next.false_branch
    ELSE task.next.true_branch

\* what Task::execute stores under the task's reactId
written_output(task, o) == Json(o.shape)

\* the TaskOutput logged with task_success
task_result(task, o) ==
    IF task.kind \in {"conditional", "filter"}
    THEN Json(IF o.status THEN "true" ELSE "false")
    ELSE Json(o.shape)

\* the suspension check sits inside `if let Some(branches) = &task.next`
suspends(task) == task.next.some /\ task.needs_to_wait

\* the events of an iteration that ends in suspension
suspend_events_with_success(task, t, o) ==
    <<Ev("task_start", t, NoOutput), Ev("task_success", t, task_result(task, o))>>

suspend_events(task, t, o) == <<Ev("task_start", t, NoOutput)>>

\* the events of an iteration whose task has no branch to follow
finish_events_silent(task, t, o) ==
    <<Ev("task_start", t, NoOutput), Ev("task_success", t, task_result(task, o))>>

finish_events(task, t, o) ==
    <<Ev("task_start", t, NoOutput), Ev("task_success", t, task_result(task, o)),
      Ev("worker_success", None, NoOutput)>>

after_suspend_goes_on(persist_ok) == IF persist_ok THEN "returned" ELSE "run"

\* suspend(): the POST of the payload and the read of its answer are
\* unwrapped, so a failed POST ends the traversal task where it stands
after_suspend(persist_ok) == IF persist_ok THEN "returned" ELSE "panicked"

failed_sets_latest(inv, t) ==
    [emit(inv, <<Ev("task_start", t, NoOutput),
                 Ev("task_fail", t, NoOutput),
                 Ev("worker_fail", None, NoOutput)>>)
        EXCEPT !.state = "Failed", !.pc = "returned", !.latest_task = t]

\* the Err arm of run(): task_fail, worker_fail, Failed, return
failed(inv, t) ==
    [emit(inv, <<Ev("task_start", t, NoOutput),
                 Ev("task_fail", t, NoOutput),
                 Ev("worker_fail", None, NoOutput)>>)
        EXCEPT !.state = "Failed", !.pc = "returned"]

\* the invocation after the iteration of run() that executes task t with
\* outcome o; persist_ok tells whether the POST of suspend() succeeded
run_iteration(inv, t, o, persist_ok) ==
    LET task == worker[t]
        done == [inv EXCEPT
                    !.latest_task = t,
                    !.outputs = MapPut(inv.outputs, t, written_output(task, o))]
        chosen == IF task.next.some
                  THEN IF select_branch(task, o) = None THEN None
                       ELSE tasks_get(select_branch(task, o))
                  ELSE inv.next
    IN CASE o.res = "panic" ->
               \* task.prepare(&self).await.unwrap() or the render panicked
               [inv EXCEPT !.pc = "panicked"]
         [] o.res = "err" -> failed(inv, t)
         [] o.res = "ok" /\ suspends(task) ->
               \* Waiting, suspend(), break
               [emit(done, suspend_events(task, t, o)) EXCEPT
                   !.state = "Waiting", !.next = chosen,
                   !.pc = after_suspend(persist_ok)]
         [] o.res = "ok" /\ ~suspends(task)
                /\ (~task.next.some
                    \/ (task.next.true_branch = None
                        /\ task.next.false_branch = None)) ->
               \* execution has finished
               [emit(done, finish_events(task, t, o)) EXCEPT
                   !.state = "Complete", !.next = chosen, !.pc = "returned"]
         [] OTHER ->
               \* log task_success and go round the loop with the chosen task
               [emit(done, <<Ev("task_start", t, NoOutput),
                             Ev("task_success", t, task_result(task, o))>>)
                   EXCEPT !.next = chosen,
                          !.pc = IF chosen = None THEN "returned" ELSE "run"]

RunTask(i, o, persist_ok) ==
    /\ invs[i].pc = "run"
    /\ Len(invs[i].events) < MaxEvents
    /\ invs[i].next # None
    /\ LET t == invs[i].next
           task == worker[t]
           after == run_iteration(invs[i], t, o, persist_ok)
       IN /\ o \in Outcomes(task.kind)
          /\ (o.res = "ok" /\ suspends(task)) \/ persist_ok
          /\ invs' = [invs EXCEPT ![i] = after]
          /\ persisted' = IF after.state = "Waiting" /\ after.pc = "returned"
                          THEN <<Payload(after)>>
                          ELSE persisted
    /\ UNCHANGED <<worker, calls>>
    /\ UNCHANGED <<hubVars, rejected, loop, pure>>

(***************************************************************************)
(* Interpreter: the resume and cancel calls                                *)
(***************************************************************************)
\* the wait token of a call: the one construct_wait_token issued for the
\* run, one signed with another key, one whose exp is past, and one whose
\* id names no run
Tokens == {"valid", "bad_signature", "expired", "unknown_id"}

\* jsonwebtoken::decode with Validation::default(): signature and exp
decode_ok(tok) == tok \in {"valid", "unknown_id"}

\* GET get_handler_payload/<id> followed by from_suspended(..).unwrap()
payload_found(tok) == tok = "valid" /\ persisted # <<>>

ApiCallUnchecked(call, tok) ==
    /\ calls < MaxCalls
    /\ persisted # <<>>
    /\ calls' = calls + 1
    /\ rejected' = IF tok = "valid" THEN rejected ELSE rejected + 1
    /\ invs' = Append(invs, from_suspended(persisted[1], call))
    /\ UNCHANGED <<worker, persisted>>
    /\ UNCHANGED <<hubVars, loop, pure>>

\* POST /api/resume and /api/cancel up to from_suspended: the handler
\* decodes the token, fetches the payload of the run and rebuilds an
\* invocation from it; each of the three steps is unwrapped, so a failure
\* ends the handler before resume or cancel is called
ApiCall(call, tok) ==
    /\ calls < MaxCalls
    /\ calls' = calls + 1
    /\ IF decode_ok(tok) /\ payload_found(tok)
       THEN /\ invs' = Append(invs, from_suspended(persisted[1], call))
            /\ rejected' = rejected
       ELSE /\ invs' = invs
            /\ rejected' = rejected + 1
    /\ UNCHANGED <<worker, persisted>>
    /\ UNCHANGED <<hubVars, loop, pure>>

merge_replaces_outputs(outputs, latest, custom) ==
    [t \in {latest} |-> [outputs[latest] EXCEPT !.custom = custom]]

\* paused_output.insert("customOutput", ..); outputs.insert(latest, ..)
merge(outputs, latest, custom) ==
    MapPut(outputs, latest, [outputs[latest] EXCEPT !.custom = custom])

\* WorkerInvocation::resume, up to the first iteration of run()
resume(inv, custom) ==
    LET latest == inv.latest_task
    IN IF latest \notin DOMAIN inv.outputs
          \/ inv.outputs[latest].shape # "object"
       THEN \* .get(..).unwrap() or .as_object().unwrap()
            [inv EXCEPT !.pc = "panicked"]
       ELSE LET merged == merge(inv.outputs, latest, custom)[latest]
                name == worker[latest].next.true_branch
                logged_success ==
                    [emit(inv, <<Ev("task_success", latest, merged)>>) EXCEPT
                        !.outputs = merge(inv.outputs, latest, custom)]
            IN CASE ~worker[latest].next.some ->
                       \* latest_task.next.as_ref().unwrap()
                       [logged_success EXCEPT !.pc = "panicked"]
                 [] worker[latest].next.some /\ name # None ->
                       [logged_success EXCEPT
                           !.start = name, !.state = "Running",
                           !.next = tasks_get(name),
                           !.pc = IF tasks_get(name) = None
                                  THEN "panicked" ELSE "run"]
                 [] OTHER -> [logged_success EXCEPT !.pc = "returned"]

Resume(i, custom) ==
    /\ invs[i].pc = "resume"
    /\ invs' = [invs EXCEPT ![i] = resume(invs[i], custom)]
    /\ UNCHANGED <<worker, persisted, calls>>
    /\ UNCHANGED <<hubVars, rejected, loop, pure>>

cancel_goes_on(inv) ==
    [emit(inv, <<Ev("api_fail", inv.latest_task, Json("object")),
                 Ev("worker_fail", None, NoOutput),
                 Ev("task_start", inv.latest_task, NoOutput)>>)
        EXCEPT !.state = "Failed", !.pc = "returned"]

\* WorkerInvocation::cancel
cancel(inv) ==
    [emit(inv, <<Ev("api_fail", inv.latest_task, Json("object")),
                 Ev("worker_fail", None, NoOutput)>>)
        EXCEPT !.state = "Failed", !.pc = "returned"]

Cancel(i) ==
    /\ invs[i].pc = "cancel"
    /\ invs' = [invs EXCEPT ![i] = cancel(invs[i])]
    /\ UNCHANGED <<worker, persisted, calls>>
    /\ UNCHANGED <<hubVars, rejected, loop, pure>>

Next ==
    \/ worker = EmptyMap /\ \E w \in Workers : Trigger(w)
    \/ \E i \in DOMAIN invs : Start(i)
    \/ \E i \in {j \in DOMAIN invs : invs[j].pc = "run"} :
           \E o \in Outcomes(worker[invs[i].next].kind) : \E p \in BOOLEAN :
               RunTask(i, o, p)
    \/ \E c \in {"resume", "cancel"} : \E tok \in Tokens : ApiCall(c, tok)
    \/ \E i \in DOMAIN invs : \E co \in CustomOutputs : Resume(i, co)
    \/ \E i \in DOMAIN invs : Cancel(i)

Spec == Init /\ [][Next]_vars

(***************************************************************************)
(* Interpreter: workers whose next entries point backwards                 *)
(***************************************************************************)
\* Worker::from_config takes the next entries as they come: a task may
\* name itself or a task before it
CyclicWorkers ==
    {[A |-> a, B |-> b, C |-> c] :
        a \in [kind : {"endpoint", "conditional"}, needs_to_wait : {FALSE},
               next : NextOver({"A", "B"})],
        b \in [kind : {"endpoint", "conditional"}, needs_to_wait : {FALSE},
               next : NextOver({"A", "B", "C"})],
        c \in {PlainTask}}

NextCyc ==
    \/ worker = EmptyMap /\ \E w \in CyclicWorkers : Trigger(w)
    \/ \E i \in DOMAIN invs : Start(i)
    \/ \E i \in {j \in DOMAIN invs : invs[j].pc = "run"} :
           \E o \in Outcomes(worker[invs[i].next].kind) : \E p \in BOOLEAN :
               RunTask(i, o, p)

SpecCyc == Init /\ [][NextCyc]_vars

(***************************************************************************)
(* Loop task: Loop::execute on behalf of a parent invocation               *)
(***************************************************************************)
\* reactId of the loop task, and the reactIds of the tasks of its body: A
\* is also the reactId of a task of the worker that ran before the loop
LoopId == "L"
InnerIds == {"A", "L1", "L2"}
InnerKinds == {"endpoint", "conditional", "filter"}
InnerTasks == [id : InnerIds, kind : InnerKinds]

\* Loop::tasks, a list that is walked in order
LoopBodies ==
    {<<t>> : t \in InnerTasks} \cup
    {<<t, u>> : t \in InnerTasks, u \in {v \in InnerTasks : v.id # "A"}}

\* outputs of the parent invocation when the loop task starts
LoopParents == {EmptyMap, [A |-> Json("object")]}

\* the loop task as run() reaches it: tasks, loop_assets, the parent
LoopStarts ==
    {[status |-> "running", tasks |-> ts, assets |-> n, asset |-> 1, idx |-> 1,
      before |-> par, parent |-> par, local |-> par, written |-> {},
      seen |-> par, last |-> 0, state |-> "Running", events |-> <<>>] :
        ts \in LoopBodies, n \in 0..MaxAssets, par \in LoopParents}

loop_write_shared(l, id, v) ==
    [l EXCEPT !.local = MapPut(l.local, id, v),
              !.parent = MapPut(l.parent, id, v),
              !.written = @ \cup {id}]

\* loop_context.outputs.lock().unwrap().insert(..): the map of the clone
loop_write(l, id, v) ==
    [l EXCEPT !.local = MapPut(l.local, id, v), !.written = @ \cup {id}]

loop_advance_task_major(l) ==
    IF l.asset < l.assets
    THEN [l EXCEPT !.asset = l.asset + 1]
    ELSE IF l.idx < Len(l.tasks)
         THEN [l EXCEPT !.idx = l.idx + 1, !.asset = 1]
         ELSE [l EXCEPT !.idx = 1, !.asset = l.assets + 1]

\* the next task of the list, or the first task of the next object
loop_advance(l) ==
    IF l.idx < Len(l.tasks)
    THEN [l EXCEPT !.idx = l.idx + 1]
    ELSE [l EXCEPT !.idx = 1, !.asset = l.asset + 1]

loop_clone_once(l) == l

\* let mut loop_context = context.clone(), once per object
loop_clone(l) == IF l.idx = 1 THEN [l EXCEPT !.local = l.parent] ELSE l

loop_failed_goes_on(l, status, evs) ==
    loop_advance([l EXCEPT !.events = @ \o evs])

\* Loop::execute returns Err: Task::execute bails and the Err arm of run()
\* logs task_fail for the loop task and worker_fail and sets Failed
loop_failed(l, status, evs) ==
    [l EXCEPT !.events = @ \o evs \o <<Ev("task_fail", LoopId, NoOutput),
                                       Ev("worker_fail", None, NoOutput)>>,
              !.status = status, !.state = "Failed"]

\* one inner task of one object: the clone of the parent is taken before
\* the first task of the object; prepared tells whether task.prepare
\* returned Ok, o is what render and Task::execute come to
LoopStep(o, prepared) ==
    /\ loop.status = "running"
    /\ loop.asset <= loop.assets
    /\ LET task == loop.tasks[loop.idx]
           cloned == loop_clone(loop)
           started == [cloned EXCEPT
                          !.events = Append(@, Ev("task_start", task.id, NoOutput)),
                          !.seen = cloned.local, !.last = loop.idx]
           stored == loop_write(started, task.id, written_output(task, o))
           kept == IF task.kind \in {"endpoint", "conditional"}
                   THEN loop_write(stored, task.id, Json("result"))
                   ELSE stored
       IN /\ o \in Outcomes(task.kind)
          /\ loop' =
                CASE ~prepared -> loop_failed(started, "prepare_failed", <<>>)
                  [] prepared /\ o.res = "panic" ->
                        [started EXCEPT !.status = "panicked"]
                  [] prepared /\ o.res = "err" ->
                        loop_failed(started, "failed",
                                    <<Ev("task_fail", task.id, NoOutput)>>)
                  [] OTHER ->
                        loop_advance([kept EXCEPT !.events =
                            Append(@, Ev("task_success", task.id,
                                         task_result(task, o)))])
    /\ UNCHANGED <<hubVars, worker, invs, persisted, calls, rejected, pure>>

\* Loop::execute returned Ok(()): Task::execute stores json!(()) under the
\* reactId of the loop task in the outputs of the parent
LoopReturn ==
    /\ loop.status = "running"
    /\ loop.asset > loop.assets
    /\ loop' = [loop EXCEPT !.status = "returned",
                            !.parent = MapPut(loop.parent, LoopId, Json("null"))]
    /\ UNCHANGED <<hubVars, worker, invs, persisted, calls, rejected, pure>>

InitLoop == InitState /\ loop \in LoopStarts /\ pure = NoCall

NextLoop ==
    \/ \E k \in InnerKinds : \E o \in Outcomes(k) : \E prepared \in BOOLEAN :
           LoopStep(o, prepared)
    \/ LoopReturn

SpecLoop == InitLoop /\ [][NextLoop]_vars

(***************************************************************************)
(* Workers with a next entry that names no task                            *)
(***************************************************************************)
\* some next entry of w names a reactId that is not a task of w
DanglingRef(w) ==
    \E u \in DOMAIN w :
        /\ w[u].next.some
        /\ \/ w[u].next.true_branch \notin DOMAIN w \cup {None}
           \/ w[u].next.false_branch \notin DOMAIN w \cup {None}

\* Worker::from_config inserts the tasks as they come and looks at no next
\* entry: Z is a reactId that is not in tasks
DanglingWorkers ==
    {w \in {[A |-> a, B |-> b] :
                a \in [kind : Kinds, needs_to_wait : BOOLEAN,
                       next : NextOver({"B", "Z"})],
                b \in [kind : {"endpoint"}, needs_to_wait : {FALSE},
                       next : NextOver({"Z"})]} :
        DanglingRef(w)}

NextDangling ==
    \/ \E w \in DanglingWorkers : Trigger(w)
    \/ \E i \in DOMAIN invs : Start(i)
    \/ \E i \in DOMAIN invs, o \in UNION {Outcomes(k) : k \in Kinds},
          persist_ok \in BOOLEAN : RunTask(i, o, persist_ok)
    \/ \E c \in {"resume", "cancel"}, tok \in Tokens : ApiCall(c, tok)
    \/ \E i \in DOMAIN invs, custom \in CustomOutputs : Resume(i, custom)
    \/ \E i \in DOMAIN invs : Cancel(i)

SpecDangling == Init /\ [][NextDangling]_vars

(***************************************************************************)
(* One execution with several tags: the spawned invocations and the loop   *)
(* of execute that awaits their handles                                    *)
(***************************************************************************)
TagWorkers ==
    {[A |-> a, B |-> PlainTask] :
        a \in [kind : {"endpoint", "conditional"}, needs_to_wait : BOOLEAN,
               next : NextOver({"B"})]}

\* execute with n tags: one invocation spawned per tag, all of one worker
TriggerTags(w, n) ==
    /\ worker = EmptyMap
    /\ worker' = w
    /\ invs' = [k \in 1..n |-> NewInvocation]
    /\ UNCHANGED <<persisted, calls>>
    /\ UNCHANGED <<hubVars, rejected, loop, pure>>

\* the task of the invocation is still on the runtime
OnRuntime(inv) == inv.pc \in {"created", "run"}

\* for handle in handles { handle.await.unwrap() }: the handles are awaited
\* in spawn order; the first one that ended in a panic makes the unwrap
\* panic, execute unwinds and drops the runtime, and the runtime drops the
\* tasks that have not finished at their next await
AwaitPanics ==
    /\ \E k \in DOMAIN invs :
          /\ invs[k].pc = "panicked"
          /\ \A j \in 1..(k - 1) : invs[j].pc = "returned"
    /\ \E j \in DOMAIN invs : OnRuntime(invs[j])
    /\ invs' = [j \in DOMAIN invs |->
                  IF OnRuntime(invs[j])
                  THEN [invs[j] EXCEPT !.pc = "aborted"] ELSE invs[j]]
    /\ UNCHANGED <<worker, persisted, calls>>
    /\ UNCHANGED <<hubVars, rejected, loop, pure>>

NextTags ==
    \/ \E w \in TagWorkers, n \in 1..MaxTags : TriggerTags(w, n)
    \/ \E i \in DOMAIN invs : Start(i)
    \/ \E i \in DOMAIN invs, o \in UNION {Outcomes(k) : k \in Kinds},
          persist_ok \in BOOLEAN : RunTask(i, o, persist_ok)
    \/ AwaitPanics

SpecTags == Init /\ [][NextTags]_vars

(***************************************************************************)
(* Conditional task: ConditionGroup::eval and Conditional::eval            *)
(***************************************************************************)
\* Option<Operator>
Ops == {None, "And", "Or"}
\* Condition::eval: Ok(true), Ok(false), Err (operands of different types)
Vals == {"T", "F", "E"}
Conditions == [op : Ops, val : Vals]

SeqsUpTo(S, n) == UNION {[1..k -> S] : k \in 1..n}

\* `result && x` and `result || x` evaluate x only where result leaves
\* the outcome open
Skips(operator, result) ==
    \/ operator = "And" /\ result = "F"
    \/ operator = "Or" /\ result = "T"

\* the loop of ConditionGroup::eval from condition k on: operator is the
\* op of the condition before
RECURSIVE group_loop(_, _, _, _)
group_loop(conditions, k, result, operator) ==
    IF k > Len(conditions) THEN result
    ELSE IF Skips(operator, result)
         THEN group_loop(conditions, k + 1, result, conditions[k].op)
         ELSE IF conditions[k].val = "E" THEN "E"
              ELSE group_loop(conditions, k + 1, conditions[k].val,
                              conditions[k].op)

ConditionGroup_eval(conditions) == group_loop(conditions, 1, "T", None)

\* the loop of Conditional::eval from group k on: each group is combined
\* by its own op
RECURSIVE expression_loop(_, _, _)
expression_loop(expression, k, result) ==
    IF k > Len(expression) THEN result
    ELSE IF Skips(expression[k].op, result)
         THEN expression_loop(expression, k + 1, result)
         ELSE LET v == ConditionGroup_eval(expression[k].conditions)
              IN IF v = "E" THEN "E"
                 ELSE expression_loop(expression, k + 1, v)

Conditional_eval(expression) == expression_loop(expression, 1, "T")

\* groups of one condition
UnitGroups == [op : Ops, conditions : {<<c>> : c \in [op : {None}, val : Vals]}]

(***************************************************************************)
(* Dispatcher: execute and construct_wait_token                            *)
(***************************************************************************)
TagNames == {"t1", "t2"}
TagLists == {<<>>} \cup SeqsUpTo(TagNames, MaxTags)
BearerTokens == {"bearer1", "bearer2"}
\* Uuid::new_v4: the k-th identifier drawn, different from every other
Uuid(k) == <<"uuid", k>>

construct_wait_token(run_id, auth_token) == [id |-> run_id, auth |-> auth_token]

invocation(exe_id, k, tag, token) ==
    [execution_id |-> exe_id, run_id |-> Uuid(k), tag |-> tag,
     wait_token |-> construct_wait_token(Uuid(k), token),
     state |-> "Pending"]

execute_one_run_id(exe_id, tags, token) ==
    IF tags = <<>> THEN <<invocation(exe_id, 1, None, token)>>
    ELSE [k \in 1..Len(tags) |-> invocation(exe_id, 1, tags[k], token)]

execute(exe_id, tags, token) ==
    IF tags = <<>> THEN <<invocation(exe_id, 1, None, token)>>
    ELSE [k \in 1..Len(tags) |-> invocation(exe_id, k, tags[k], token)]

(***************************************************************************)
(* WorkerInvocation::render_variables                                      *)
(***************************************************************************)
\* var_type of a reference; "" is a bare name, "OTHER" any other prefix
Scopes == {"OUTPUT", "ASSET", "CUSTOM", "GLOBAL", "", "OTHER"}
References == [scope : Scopes, defined : BOOLEAN]

\* what the translated reference renders to: OUTPUT and bare names are
\* wrapped in `is defined`, the other scopes are plain {{ }} expressions,
\* which Tera refuses to render when the variable is missing
render_reference(ref) ==
    CASE ref.scope \in {"OUTPUT", ""} ->
            IF ref.defined THEN "value" ELSE "undefined"
      [] ref.scope \in {"ASSET", "CUSTOM", "GLOBAL"} ->
            IF ref.defined THEN "value" ELSE "panic"
      [] OTHER -> "panic"

render_variables(refs) ==
    IF \E k \in DOMAIN refs : render_reference(refs[k]) = "panic"
    THEN [panicked |-> TRUE, rendered |-> <<>>]
    ELSE [panicked |-> FALSE,
          rendered |-> [k \in DOMAIN refs |-> render_reference(refs[k])]]

(***************************************************************************)
(* WorkerInvocation::log                                                   *)
(***************************************************************************)
LogKinds == {"worker_start", "worker_success", "worker_fail",
             "task_start", "task_success", "task_fail", "api_fail"}
LogArgs == [state : {"Running", "Waiting", "Complete", "Failed"},
            kind : LogKinds, channel : BOOLEAN,
            post_ok : BOOLEAN, send_ok : BOOLEAN]

log_returns_on_post_error(a) ==
    [state |-> a.state, returned |-> "unit",
     posted |-> a.post_ok,
     published |-> a.post_ok /\ a.channel /\ a.send_ok]

\* &self: the invocation is as before; both errors are printed
log(a) ==
    [state |-> a.state, returned |-> "unit",
     posted |-> a.post_ok,
     published |-> a.channel /\ a.send_ok]

(***************************************************************************)
(* Filter task: search_json and Filter::execute                            *)
(***************************************************************************)
\* a JSON value as search_json sees it: an object (hit: it holds the
\* search key with a value the condition accepts), an array, or any other
\* value; kids are the member values in iteration order
Value(t, hit, kids) == [t |-> t, hit |-> hit, kids |-> kids]
Scalar == Value("scalar", FALSE, <<>>)
Shapes(kids) ==
    {Value("object", h, ks) : h \in BOOLEAN, ks \in kids}
    \cup {Value("array", FALSE, ks) : ks \in kids}

Values0 == {Scalar} \cup Shapes({<<>>})
Values1 == {Scalar} \cup Shapes({<<>>} \cup {<<v>> : v \in Values0})
FilterInputs == {Scalar} \cup Shapes({<<>>} \cup SeqsUpTo(Values1, MaxKids))

\* parent: Option<Value> as a sequence of at most one value.  The search
\* of the members hands on the parent it was given
RECURSIVE search_json(_, _)
search_json(json_obj, parent) ==
    LET RECURSIVE members(_)
        members(k) ==
            IF k > Len(json_obj.kids) THEN <<>>
            ELSE search_json(json_obj.kids[k], parent) \o members(k + 1)
    IN CASE json_obj.t = "object" ->
               (IF json_obj.hit
                THEN IF parent # <<>> THEN parent ELSE <<json_obj>>
                ELSE <<>>) \o members(1)
         [] json_obj.t = "array" -> members(1)
         [] OTHER -> <<>>

\* Filter::execute: the search starts with no parent
Filter_execute(json_obj) ==
    LET res == search_json(json_obj, <<>>)
    IN [statusCode |-> Len(res) > 0, results |-> res, count |-> Len(res)]

(***************************************************************************)
(* Functions applied to arguments drawn from bounded sets                  *)
(***************************************************************************)
Call(fn, arg) == [fn |-> fn, arg |-> arg, done |-> FALSE, result |-> None]

PureCalls ==
    {Call("ConditionGroup::eval", a) : a \in SeqsUpTo(Conditions, MaxConds)}
    \cup {Call("Conditional::eval", a) : a \in SeqsUpTo(UnitGroups, MaxGroups)}
    \cup {Call("execute", a) :
             a \in [exe_id : {"X", "Y"}, tags : TagLists, token : BearerTokens]}
    \cup {Call("render_variables", a) : a \in SeqsUpTo(References, MaxRefs)}
    \cup {Call("log", a) : a \in LogArgs}
    \cup {Call("Filter::execute", a) : a \in FilterInputs}

Return(v) ==
    /\ pure' = [pure EXCEPT !.done = TRUE, !.result = v]
    /\ UNCHANGED <<hubVars, worker, invs, persisted, calls, rejected, loop>>

EvalGroup ==
    /\ pure.fn = "ConditionGroup::eval" /\ ~pure.done
    /\ Return(ConditionGroup_eval(pure.arg))

EvalConditional ==
    /\ pure.fn = "Conditional::eval" /\ ~pure.done
    /\ Return(Conditional_eval(pure.arg))

Dispatch ==
    /\ pure.fn = "execute" /\ ~pure.done
    /\ Return(execute(pure.arg.exe_id, pure.arg.tags, pure.arg.token))

Render ==
    /\ pure.fn = "render_variables" /\ ~pure.done
    /\ Return(render_variables(pure.arg))

Log ==
    /\ pure.fn = "log" /\ ~pure.done
    /\ Return(log(pure.arg))

FilterExecute ==
    /\ pure.fn = "Filter::execute" /\ ~pure.done
    /\ Return(Filter_execute(pure.arg))

InitPure == InitState /\ loop = IdleLoop /\ pure \in PureCalls

NextPure ==
    \/ EvalGroup
    \/ EvalConditional
    \/ Dispatch
    \/ Render
    \/ Log
    \/ FilterExecute

SpecPure == InitPure /\ [][NextPure]_vars

(***************************************************************************)
(* Hub properties                                                          *)
(***************************************************************************)
Members(exe) == MapGetOr(subscriptions, exe, {})

\* C2: the events published for an execution while it had no subscriber are
\* delivered to the first session that subscribes afterwards, in publish
\* order, ahead of everything that session is sent later.
C2_ReplayInPublishOrder ==
    \A c \in SessionIds : IsPrefix(drained[c], delivered[c])

C2_Witness ==
    \E c \in SessionIds :
        /\ Len(drained[c]) >= 2
        /\ Len(delivered[c]) > Len(drained[c])

\* C3: a buffer entry exists for an execution only if its subscription set
\* has no member.
C3_BufferOnlyWhenUnsubscribed ==
    \A e \in DOMAIN buffered_message : Members(e) = {}

C3_Witness ==
    /\ \E e \in DOMAIN buffered_message : Len(buffered_message[e]) >= 2
    /\ \E e \in DOMAIN subscriptions : \E c \in SessionIds :
           e \notin DOMAIN buffered_message /\ drained[c] # <<>>

\* C4: once an Unsubscribe has emptied the subscription set of an execution,
\* the execution has no buffer until the next Publish for it is handled.
C4_NoBufferAfterDepart ==
    \A e \in dropped : e \notin DOMAIN buffered_message

C4_Witness ==
    \E e \in dropped : \E r \in Runs :
        /\ ExeOf(r) = e
        /\ logged[r] > 0
        /\ \E c \in SessionIds : drained[c] # <<>> /\ c \notin DOMAIN sessions

\* C5: a Publish sends one copy of the event to the sink of every member of
\* the execution's subscription set and leaves the execution without a
\* buffer when the set has a member; otherwise it appends the event to the
\* end of the buffer and no sink receives anything.
C5_PublishEffect ==
    [][\A r \in Runs : logged'[r] = logged[r] + 1 =>
        LET exe == ExeOf(r)
            msg == WorkerLog(r, logged[r] + 1)
            sinks == {sessions[s] : s \in Members(exe) \cap DOMAIN sessions}
        IN IF Members(exe) # {}
           THEN /\ Members(exe) \subseteq DOMAIN sessions
                /\ \A c \in sinks : delivered'[c] = Append(delivered[c], msg)
                /\ \A c \in SessionIds \ sinks : delivered'[c] = delivered[c]
                /\ exe \notin DOMAIN buffered_message'
           ELSE /\ exe \in DOMAIN buffered_message'
                /\ buffered_message'[exe] =
                       Append(MapGetOr(buffered_message, exe, <<>>), msg)
                /\ delivered' = delivered]_vars

C5_Witness ==
    /\ \E c \in SessionIds : Len(delivered[c]) > Len(drained[c])
    /\ \E c, d \in SessionIds :
           c # d /\ delivered[c] # <<>> /\ delivered[c] = delivered[d]
    /\ \E e \in DOMAIN buffered_message : Len(buffered_message[e]) >= 2

\* C6: a session receives the events of any one invocation in the order the
\* invocation logged them, however the publishes of the other invocations of
\* the execution interleave.
C6_PerInvocationOrder ==
    \A c \in SessionIds : \A i, j \in DOMAIN delivered[c] :
        (i < j /\ delivered[c][i].run = delivered[c][j].run)
            => delivered[c][i].n < delivered[c][j].n

C6_Witness ==
    \E c \in SessionIds :
        /\ drained[c] = <<>>
        /\ Len(delivered[c]) >= 4
        /\ delivered[c][1].run # delivered[c][2].run
        /\ delivered[c][2].run # delivered[c][3].run

(***************************************************************************)
(* Interpreter properties                                                  *)
(***************************************************************************)
\* event names and reactIds of a log, outputs left out
Names(evs) == [k \in DOMAIN evs |-> <<evs[k].event, evs[k].react_id>>]

Last(seq) == seq[Len(seq)]

\* the invocation was rebuilt by a cancel / resume call and the call has run
Cancelled(inv) == inv.events # <<>> /\ inv.events[1].event = "api_fail"
Resumed(inv) == inv.events # <<>> /\ inv.events[1].event = "task_success"

SpecTransitions ==
    {<<"Pending", "Running">>, <<"Running", "Complete">>,
     <<"Running", "Failed">>, <<"Running", "Waiting">>,
     <<"Waiting", "Running">>, <<"Waiting", "Failed">>}

CodeTransitions ==
    {<<"Pending", "Running">>, <<"Running", "Complete">>,
     <<"Running", "Failed">>, <<"Running", "Waiting">>,
     <<"Pending", "Failed">>}

\* C1 as stated: the state of an invocation changes only along
\* Pending->Running, Running->Complete, Running->Failed, Running->Waiting,
\* Waiting->Running (resume) and Waiting->Failed (cancel).
C1_SpecTransitionsOnly ==
    [][\A i \in DOMAIN invs :
          invs'[i].state # invs[i].state
              => <<invs[i].state, invs'[i].state>> \in SpecTransitions]_vars

\* C1 amended: the state of an invocation changes only along
\* Pending->Running, Running->Complete, Running->Failed, Running->Waiting
\* and, on cancel, Pending->Failed; an invocation that is Waiting is never
\* changed again, because resume and cancel act on an invocation rebuilt
\* from the persisted form, which starts in Pending.
C1_CodeTransitionsOnly ==
    [][/\ \A i \in DOMAIN invs :
             invs'[i].state # invs[i].state
                 => <<invs[i].state, invs'[i].state>> \in CodeTransitions
       /\ \A i \in DOMAIN invs' \ DOMAIN invs : invs'[i].state = "Pending"]_vars

C1_Witness ==
    \E i, j \in DOMAIN invs :
        /\ invs[1].state = "Waiting"
        /\ Cancelled(invs[i]) /\ invs[i].state = "Failed"
        /\ Resumed(invs[j]) /\ invs[j].state = "Complete"

\* a linear chain A -> B: A continues with B only, B has no successor,
\* neither task waits
Terminal(task) ==
    ~task.next.some
    \/ (task.next.true_branch = None /\ task.next.false_branch = None)

LinearChain ==
    /\ worker # EmptyMap
    /\ worker["A"].next.some
    /\ worker["A"].next.true_branch = "B"
    /\ worker["A"].next.false_branch = None
    /\ Terminal(worker["B"])
    /\ ~worker["A"].needs_to_wait
    /\ ~worker["B"].needs_to_wait

\* the traversal of the triggered invocation has returned and no task failed
ReturnedWithoutFailure ==
    /\ invs # <<>>
    /\ invs[1].pc = "returned"
    /\ invs[1].state # "Failed"

ChainLog ==
    <<<<"worker_start", None>>, <<"task_start", "A">>, <<"task_success", "A">>,
      <<"task_start", "B">>, <<"task_success", "B">>, <<"worker_success", None>>>>

\* the statusCode logged with the task_success of task t is false
StatusFalse(inv, t) ==
    \E k \in DOMAIN inv.events :
        /\ inv.events[k].event = "task_success"
        /\ inv.events[k].react_id = t
        /\ inv.events[k].output.shape = "false"

BranchOf(ev) ==
    LET task == worker[ev.react_id]
    IN IF task.kind \in {"conditional", "filter"} /\ ev.output.shape = "false"
       THEN task.next.false_branch
       ELSE task.next.true_branch

\* the task_success events logged by the loop of run(), not by resume
FromRunLoop(inv, k) ==
    /\ inv.events[k].event = "task_success"
    /\ k > 1
    /\ inv.events[k - 1].event = "task_start"

C9_WaitAlwaysSuspends ==
    [][\A i \in DOMAIN invs :
          (/\ invs[i].pc = "run"
           /\ invs'[i].latest_task = invs[i].next
           /\ invs'[i].latest_task # invs[i].latest_task
           /\ worker[invs[i].next].needs_to_wait)
              => /\ invs'[i].state = "Waiting"
                 /\ invs'[i].pc \in {"returned", "panicked"}
                 /\ invs'[i].pc = "returned"
                        => persisted' = <<Payload(invs'[i])>>]_vars

TaskEvents == {"task_start", "task_success", "task_fail"}

\* the invocation was rebuilt by a resume call whose merge panicked
ResumePanicked(j) ==
    j > 1 /\ invs[j].pc = "panicked" /\ invs[j].events = <<>>

\* the traversal of a rebuilt invocation is over and its follow-on task,
\* if it ran, did not fail
FollowOnDidNotFail(j) ==
    /\ invs[j].pc \in {"returned", "panicked"}
    /\ invs[j].state # "Failed"
    /\ invs[j].pc = "panicked" => invs[j].events = <<>>

\* the paused task E continues with a terminal F that does not wait
PausedBeforeTerminal(E) ==
    /\ E # None
    /\ worker[E].next.some
    /\ worker[E].next.true_branch # None
    /\ Terminal(worker[worker[E].next.true_branch])
    /\ ~worker[worker[E].next.true_branch].needs_to_wait

\* C11 as stated: resuming an invocation paused on E (next.true = F, F
\* terminal) with a customOutput logs task_success(E) with the merged
\* output, task_start(F), task_success(F), worker_success and ends Complete.
C11_ResumeRunsFollowOn ==
    \A j \in DOMAIN invs :
        LET E == invs[1].latest_task
        IN (/\ j > 1
            /\ invs[1].state = "Waiting"
            /\ PausedBeforeTerminal(E)
            /\ (Resumed(invs[j]) \/ ResumePanicked(j))
            /\ FollowOnDidNotFail(j))
           => /\ Names(invs[j].events) =
                    <<<<"task_success", E>>,
                      <<"task_start", worker[E].next.true_branch>>,
                      <<"task_success", worker[E].next.true_branch>>,
                      <<"worker_success", None>>>>
              /\ invs[j].events[1].output.custom \in CustomOutputs
              /\ invs[j].state = "Complete"

\* C12: cancelling a paused invocation logs api_fail for the paused task,
\* then worker_fail, sets the state to Failed, and the cancelled invocation
\* logs no task_start, task_success or task_fail after them.
C12_CancelLogsAndFails ==
    \A j \in DOMAIN invs :
        Cancelled(invs[j]) =>
            /\ Names(invs[j].events) =
                   <<<<"api_fail", invs[j].latest_task>>, <<"worker_fail", None>>>>
            /\ invs[j].latest_task # None
            /\ worker[invs[j].latest_task].needs_to_wait
            /\ invs[j].state = "Failed"
            /\ invs[j].pc = "returned"

C12_Witness ==
    \E j \in DOMAIN invs :
        /\ invs[1].state = "Waiting"
        /\ invs[1].latest_task = "A"
        /\ Cancelled(invs[j])
        /\ invs[j].events[1].react_id = "A"
        /\ calls = MaxCalls

\* C13 as stated: a cancel call that arrives while the invocation is
\* Running (here: after it has been resumed) logs no worker_fail for the run.
C13_CancelWhileRunningIsInert ==
    [][\A j \in DOMAIN invs :
          (/\ invs[j].pc = "cancel"
           /\ invs'[j].pc # "cancel"
           /\ \E i \in DOMAIN invs : invs[i].state = "Running")
              => \A k \in DOMAIN invs'[j].events :
                     invs'[j].events[k].event # "worker_fail"]_vars

\* C14 as stated: once a cancel has been processed for a paused invocation,
\* no further task event is logged for the run, also when a resume call
\* with the same wait token arrives later.
C14_NothingAfterCancel ==
    [][(\E i \in DOMAIN invs : Cancelled(invs[i]))
          => \A j \in DOMAIN invs :
                 \A k \in DOMAIN invs'[j].events :
                     (k > Len(invs[j].events))
                         => invs'[j].events[k].event \notin TaskEvents]_vars

\* C17: latest_task is unset or names a task that executed successfully in
\* this invocation: it is set only by the Ok arm of run(), so its output is
\* in outputs, and the step that fails a task leaves it as it was.
C17_LatestTaskSucceeded ==
    [][\A i \in DOMAIN invs' :
          /\ invs'[i].latest_task # None
                => invs'[i].latest_task \in DOMAIN invs'[i].outputs
          /\ (i \in DOMAIN invs /\ invs'[i].latest_task # invs[i].latest_task)
                => /\ invs[i].pc = "run"
                   /\ invs'[i].latest_task = invs[i].next
                   /\ invs'[i].state # "Failed"
          /\ (i \in DOMAIN invs /\ invs[i].state # "Failed"
              /\ invs'[i].state = "Failed")
                => invs'[i].latest_task = invs[i].latest_task]_vars

C17_Witness ==
    \E i \in DOMAIN invs :
        /\ invs[i].state = "Failed"
        /\ invs[i].latest_task = "A"
        /\ Last(invs[i].events).event = "worker_fail"
        /\ \E k \in DOMAIN invs[i].events :
               invs[i].events[k] = Ev("task_fail", "B", NoOutput)

\* C18 as stated: when the preparation or the execution of a task fails,
\* the interpreter logs task_fail for the task, then worker_fail, and sets
\* the state to Failed.
C18_FailureIsLogged ==
    [][\A i \in DOMAIN invs :
          (/\ invs[i].pc = "run"
           /\ \/ invs'[i].state = "Failed"
              \/ invs'[i].pc = "panicked" /\ invs'[i].state # "Waiting")
              => /\ invs'[i].state = "Failed"
                 /\ Len(invs'[i].events) >= 2
                 /\ Names(invs'[i].events)[Len(invs'[i].events) - 1] =
                        <<"task_fail", invs[i].next>>
                 /\ Last(invs'[i].events).event = "worker_fail"]_vars

\* C19 as stated: suspend, rehydration and resume with a customOutput give
\* the outputs of an uninterrupted run with that customOutput injected into
\* the output of T; checked where resume hands over to the loop of run():
\* the outputs are those at suspension with the customOutput merged into
\* T's, and the task to run is the one selected when T succeeded.
C19_ResumeEqualsUninterrupted ==
    [][\A j \in DOMAIN invs :
          (invs[j].pc = "resume" /\ invs'[j].pc # "resume")
              => \E i \in DOMAIN invs : \E co \in CustomOutputs :
                     LET T == invs[i].latest_task
                     IN /\ invs[i].state = "Waiting"
                        /\ T = invs[j].latest_task
                        /\ invs'[j].outputs =
                               MapPut(invs[i].outputs, T,
                                      [invs[i].outputs[T] EXCEPT !.custom = co])
                        /\ invs'[j].next = invs[i].next]_vars

\* the executions of task t that stored an output in this invocation
Writes(inv, t) ==
    {k \in DOMAIN inv.events :
        /\ inv.events[k] = Ev("task_start", t, NoOutput)
        /\ k < Len(inv.events) => inv.events[k + 1].event # "task_fail"}

\* C16 as stated: in one traversal, for any task graph the configuration
\* allows, each non-loop task writes outputs[reactId] at most once.
C16_WritesAtMostOnce ==
    \A i \in DOMAIN invs : \A t \in DOMAIN worker :
        worker[t].kind # "loop" => Cardinality(Writes(invs[i], t)) <= 1

C15_LoopLeavesParentOutputs ==
    loop.status \in {"returned", "failed", "prepare_failed"} =>
        \A k \in loop.written :
            IF k \in DOMAIN loop.before
            THEN k \in DOMAIN loop.parent /\ loop.parent[k] = loop.before[k]
            ELSE k \notin DOMAIN loop.parent

C15_Witness ==
    /\ loop.status = "returned"
    /\ loop.assets = MaxAssets
    /\ loop.written = {"A", "L1"}
    /\ "A" \in DOMAIN loop.before
    /\ loop.local["A"] # loop.before["A"]
    /\ LoopId \in DOMAIN loop.parent

(***************************************************************************)
(* Conditional properties                                                  *)
(***************************************************************************)
\* the terms of the expression applied: their operators and their values
TermOps == [k \in DOMAIN pure.arg |-> pure.arg[k].op]
TermVals ==
    [k \in DOMAIN pure.arg |->
        IF pure.fn = "Conditional::eval"
        THEN pure.arg[k].conditions[1].val
        ELSE pure.arg[k].val]

Evaluated(fn) == pure.fn = fn /\ pure.done
ErrorFree == \A k \in DOMAIN pure.arg : TermVals[k] # "E"

Combine(op, acc, v) ==
    CASE op = "And" -> IF acc = "T" /\ v = "T" THEN "T" ELSE "F"
      [] op = "Or" -> IF acc = "T" \/ v = "T" THEN "T" ELSE "F"
      [] OTHER -> v

\* the first term as it is, each later term by the operator of the term
\* before it
RECURSIVE FoldByPreceding(_, _, _)
FoldByPreceding(ops, vals, k) ==
    IF k = 1 THEN vals[1]
    ELSE Combine(ops[k - 1], FoldByPreceding(ops, vals, k - 1), vals[k])

\* C22 as stated: evaluation does not short-circuit: an expression or
\* group with a term whose evaluation fails fails as a whole, also when the
\* terms before it determine the result.
C22_NoShortCircuit ==
    (/\ Evaluated("ConditionGroup::eval") \/ Evaluated("Conditional::eval")
     /\ ~ErrorFree)
        => pure.result = "E"

\* C23 as stated: conditions of a group and groups of an expression are
\* both folded from true with each term after the first combined by the
\* operator of the term before it, the first term's operator ignored.
C23_FoldByPrecedingOperator ==
    (/\ Evaluated("ConditionGroup::eval") \/ Evaluated("Conditional::eval")
     /\ ErrorFree)
        => pure.result = FoldByPreceding(TermOps, TermVals, Len(pure.arg))

(***************************************************************************)
(* Dispatcher, rendering and logging properties                            *)
(***************************************************************************)
\* C24: the dispatcher creates exactly one invocation with no tag when the
\* tag list is empty and otherwise one per entry of the tag list, in list
\* order; all carry the execution id given, each has a run id of its own
\* and a wait token whose id is that run id and whose auth is the caller's
\* bearer token.
C24_OneInvocationPerTag ==
    Evaluated("execute") =>
        LET a == pure.arg
            r == pure.result
        IN /\ a.tags = <<>> => Len(r) = 1 /\ r[1].tag = None
           /\ a.tags # <<>> =>
                 /\ Len(r) = Len(a.tags)
                 /\ \A k \in DOMAIN r : r[k].tag = a.tags[k]
           /\ \A k \in DOMAIN r :
                 /\ r[k].execution_id = a.exe_id
                 /\ r[k].wait_token.id = r[k].run_id
                 /\ r[k].wait_token.auth = a.token
           /\ \A k, l \in DOMAIN r : k # l => r[k].run_id # r[l].run_id

C24_Witness ==
    /\ Evaluated("execute")
    /\ Len(pure.arg.tags) = 2
    /\ Len(pure.result) = 2
    /\ pure.result[1].run_id # pure.result[2].run_id

\* C25: whether the log POST or the publish to the Hub fails, log returns
\* normally with the invocation as it was, and the event is published to
\* the Hub whenever the send to the Hub itself succeeds, the log POST
\* having failed or not.
C25_LogErrorsAreSwallowed ==
    Evaluated("log") =>
        /\ pure.result.returned = "unit"
        /\ pure.result.state = pure.arg.state
        /\ (pure.arg.channel /\ pure.arg.send_ok) => pure.result.published

C25_Witness ==
    /\ Evaluated("log")
    /\ ~pure.arg.post_ok
    /\ pure.arg.channel /\ pure.arg.send_ok
    /\ pure.result.published
    /\ ~pure.result.posted

\* C27 as stated: rendering never fails on an undefined reference: every
\* reference of scope OUTPUT, ASSET, CUSTOM, GLOBAL or bare name whose
\* target is not defined renders to the literal undefined.
C27_UndefinedRendersLiteral ==
    (/\ Evaluated("render_variables")
     /\ \A k \in DOMAIN pure.arg : pure.arg[k].scope # "OTHER")
        => /\ ~pure.result.panicked
           /\ \A k \in DOMAIN pure.arg :
                 ~pure.arg[k].defined => pure.result.rendered[k] = "undefined"

(***************************************************************************)
(* Determinism of the traversal                                            *)
(***************************************************************************)
\* the reactIds an invocation visited, in order
RECURSIVE Visited(_)
Visited(evs) ==
    IF evs = <<>> THEN <<>>
    ELSE IF evs[1].event = "task_start"
         THEN <<evs[1].react_id>> \o Visited(Tail(evs))
         ELSE Visited(Tail(evs))

C28_AbandonedWhenPersistFails ==
    [][\A i \in DOMAIN invs :
          /\ (/\ invs[i].pc = "run"
              /\ invs'[i].state = "Waiting"
              /\ persisted' # <<Payload(invs'[i])>>)
                => /\ invs'[i].pc = "panicked"
                   /\ \A k \in DOMAIN invs'[i].events :
                         invs'[i].events[k].event # "worker_success"
          /\ (invs[i].pc = "panicked" /\ invs[i].state = "Waiting")
                => invs'[i] = invs[i]]_vars

C28_Witness ==
    \E i \in DOMAIN invs :
        /\ invs[i].pc = "panicked"
        /\ invs[i].state = "Waiting"
        /\ Last(invs[i].events).event = "task_start"
        /\ persisted # <<Payload(invs[i])>>

\* C26 as stated: a worker with a next entry that names no task is
\* rejected when it is built, so that no invocation of it is started and
\* no event of it is logged.
C26_DanglingIsRejected ==
    (worker # EmptyMap /\ DanglingRef(worker))
        => \A i \in DOMAIN invs :
              invs[i].pc = "created" /\ invs[i].events = <<>>

\* C30 as stated: a traversal entered through start or resume that has
\* returned without suspending left the invocation Complete with
\* worker_success, or Failed with worker_fail, as the last event logged.
C30_ReturnsCompleteOrFailed ==
    \A i \in DOMAIN invs :
        (/\ invs[i].pc = "returned"
         /\ ~Cancelled(invs[i])
         /\ invs[i].state # "Waiting")
            => \/ /\ invs[i].state = "Complete"
                  /\ Last(invs[i].events).event = "worker_success"
               \/ /\ invs[i].state = "Failed"
                  /\ Last(invs[i].events).event = "worker_fail"

(***************************************************************************)
(* Frame of Unsubscribe                                                    *)
(***************************************************************************)
SameBuffer(e) ==
    /\ e \in DOMAIN buffered_message <=> e \in DOMAIN buffered_message'
    /\ e \in DOMAIN buffered_message => buffered_message'[e] = buffered_message[e]

\* C29: a step that unsubscribes session id removes id from sessions and
\* from every subscription set, removes every subscription set that became
\* empty together with the buffer of that execution, and leaves every
\* other session, subscription set and buffer as it was.
C29_UnsubscribeEffect ==
    [][\A id \in SessionIds :
          (id \in DOMAIN sessions /\ id \notin DOMAIN sessions') =>
              /\ DOMAIN sessions' = DOMAIN sessions \ {id}
              /\ \A s \in DOMAIN sessions' : sessions'[s] = sessions[s]
              /\ \A e \in Exes :
                    IF e \notin DOMAIN subscriptions
                    THEN e \notin DOMAIN subscriptions' /\ SameBuffer(e)
                    ELSE IF subscriptions[e] \ {id} = {}
                         THEN /\ e \notin DOMAIN subscriptions'
                              /\ e \notin DOMAIN buffered_message'
                         ELSE /\ e \in DOMAIN subscriptions'
                              /\ subscriptions'[e] = subscriptions[e] \ {id}
                              /\ SameBuffer(e)]_vars

\* a session has left, emptying a subscription set, while another session
\* is still subscribed
C29_Witness ==
    /\ dropped # {}
    /\ DOMAIN sessions # {}
    /\ DOMAIN sessions # 1..next_session
    /\ \E e \in DOMAIN subscriptions : subscriptions[e] # {}

(***************************************************************************)
(* The merge of resume, the frame of resume and cancel                     *)
(***************************************************************************)
ResumeStep(j) == invs[j].pc = "resume" /\ invs'[j].pc # "resume"
CancelStep(j) == invs[j].pc = "cancel" /\ invs'[j].pc # "cancel"

\* C31 as stated: whatever JSON value the paused task produced as its
\* output, resume stores the customOutput under the key customOutput of
\* that output and keeps the rest of it.
C31_MergeForAnyJson ==
    [][\A j \in DOMAIN invs :
          ResumeStep(j) =>
              LET T == invs[j].latest_task
              IN /\ T \in DOMAIN invs'[j].outputs
                 /\ invs'[j].outputs[T].custom \in CustomOutputs
                 /\ invs'[j].outputs[T].shape = invs[j].outputs[T].shape]_vars

\* C39: resume changes outputs at most at the reactId of the paused task:
\* the keys of outputs, every other entry, the assets and the task map of
\* the worker are after it what they were before; cancel changes no
\* outputs entry, nor the assets or the task map.
C39_ResumeCancelFrame ==
    [][\A j \in DOMAIN invs :
          /\ ResumeStep(j) =>
                /\ DOMAIN invs'[j].outputs = DOMAIN invs[j].outputs
                /\ \A t \in DOMAIN invs[j].outputs \ {invs[j].latest_task} :
                      invs'[j].outputs[t] = invs[j].outputs[t]
                /\ invs'[j].assets = invs[j].assets
                /\ worker' = worker
          /\ CancelStep(j) =>
                /\ invs'[j].outputs = invs[j].outputs
                /\ invs'[j].assets = invs[j].assets
                /\ worker' = worker]_vars

\* an invocation rebuilt with the outputs of two tasks has merged into
\* the output of the paused one and done nothing else yet, and an
\* invocation was cancelled
C39_Witness ==
    /\ \E j \in DOMAIN invs :
          /\ Resumed(invs[j])
          /\ Len(invs[j].events) = 1
          /\ invs[j].outputs[invs[j].latest_task].custom \in CustomOutputs
          /\ \E t \in DOMAIN invs[j].outputs : t # invs[j].latest_task
    /\ \E j \in DOMAIN invs : Cancelled(invs[j])

\* the executions of task t started by this invocation
Starts(inv, t) ==
    {k \in DOMAIN inv.events : inv.events[k] = Ev("task_start", t, NoOutput)}

\* C40 as stated: on a worker whose next references form an acyclic graph
\* a traversal whose task executions all return executes each task at most
\* once and, when it has returned, has left the invocation Complete, Failed
\* or Waiting.
C40_AcyclicTraversalEnds ==
    \A i \in DOMAIN invs :
        ~Cancelled(invs[i]) =>
            /\ \A t \in DOMAIN worker : Cardinality(Starts(invs[i], t)) <= 1
            /\ invs[i].pc = "returned"
                  => invs[i].state \in {"Complete", "Failed", "Waiting"}

(***************************************************************************)
(* Loop: order, isolation of iterations, failure                           *)
(***************************************************************************)
\* the inner task the k-th execution of the loop belongs to
TaskOfExecution(k) == loop.tasks[((k - 1) % Len(loop.tasks)) + 1]

\* C32: the executions inside a loop come one after the other, each
\* task_start followed by the result of that task before anything else
\* starts, and they go through the task list in order for one object
\* before the first task of the next object starts.
C32_OneTaskAtATimeInListOrder ==
    \A p \in DOMAIN loop.events :
        loop.events[p].event = "task_start" =>
            /\ p % 2 = 1
            /\ loop.events[p].react_id = TaskOfExecution((p + 1) \div 2).id
            /\ (p + 1) \div 2 <= loop.assets * Len(loop.tasks)
            /\ p < Len(loop.events) =>
                  \/ /\ loop.events[p + 1].event \in {"task_success", "task_fail"}
                     /\ loop.events[p + 1].react_id = loop.events[p].react_id
                  \/ loop.events[p + 1] = Ev("task_fail", LoopId, NoOutput)

C32_Witness ==
    /\ loop.status = "returned"
    /\ Len(loop.tasks) = 2
    /\ loop.tasks[1].id # loop.tasks[2].id
    /\ loop.assets = 2
    /\ Len(loop.events) = 8

\* what an inner task wrote under its reactId when it succeeded
InnerOutput(task, sh) ==
    IF task.kind \in {"endpoint", "conditional"} THEN Json("result") ELSE Json(sh)

\* C33: the first inner task of every iteration sees the outputs of the
\* parent as they were when the loop task began, whatever earlier
\* iterations wrote; a later inner task of an iteration sees in addition
\* what the first inner task of that iteration wrote.
C33_IterationsAreIsolated ==
    /\ loop.last = 1 => loop.seen = loop.before
    /\ loop.last = 2 =>
          \E sh \in {"object", "array", "bool"} :
              loop.seen = MapPut(loop.before, loop.tasks[1].id,
                                 InnerOutput(loop.tasks[1], sh))

\* the first task of the second object has run after the first object
\* wrote over an output of the parent
C33_Witness ==
    /\ loop.last = 1
    /\ loop.asset >= 2
    /\ "A" \in loop.written
    /\ "A" \in DOMAIN loop.before
    /\ loop.idx = 2
    /\ loop.seen = loop.before
    /\ loop.local # loop.before

RECURSIVE EmitParent(_, _)
EmitParent(v, enclosing) ==
    LET RECURSIVE members(_)
        members(k) ==
            IF k > Len(v.kids) THEN <<>>
            ELSE EmitParent(v.kids[k], <<v>>) \o members(k + 1)
    IN (IF v.t = "object" /\ v.hit
        THEN IF enclosing # <<>> THEN enclosing ELSE <<v>>
        ELSE <<>>) \o members(1)

\* C35 as stated: a match the traversal reached by descending through an
\* enclosing value is emitted as that enclosing value; the matching object
\* itself is emitted only for a match at the root of the filtered JSON.
C35_NestedMatchEmitsParent ==
    Evaluated("Filter::execute") =>
        pure.result.results = EmitParent(pure.arg, <<>>)

(***************************************************************************)
(* Hub: delivery of buffered events, shape of the subscription map         *)
(***************************************************************************)
Occurrences(seq, m) == Cardinality({k \in DOMAIN seq : seq[k] = m})

\* C36: an event that was buffered for an execution and found there by a
\* subscribing session has been delivered once to that session and to no
\* other: a session that subscribed later holds none of the events that
\* were buffered before an earlier subscribe.
C36_BufferedDeliveredOnce ==
    \A c \in SessionIds : \A k \in DOMAIN drained[c] :
        /\ Occurrences(delivered[c], drained[c][k]) = 1
        /\ \A d \in SessionIds \ {c} :
              Occurrences(delivered[d], drained[c][k]) = 0

\* a first session took the buffer, a second subscribed later to the same
\* execution and got what was published from then on
C36_Witness ==
    \E c, d \in SessionIds :
        /\ c < d
        /\ Len(drained[c]) >= 1
        /\ drained[d] = <<>>
        /\ delivered[d] # <<>>
        /\ Len(delivered[c]) = Len(drained[c]) + Len(delivered[d])

\* C37: no subscription set is empty and every session id in a
\* subscription set is a key of sessions, so a Publish for an execution
\* with a subscription entry has a sink to send to.
C37_SubscriptionsWellFormed ==
    \A e \in DOMAIN subscriptions :
        /\ subscriptions[e] # {}
        /\ subscriptions[e] \subseteq DOMAIN sessions

\* of two sessions subscribed to one execution one has left
C37_Witness ==
    /\ next_session = 2
    /\ Cardinality(DOMAIN sessions) = 1
    /\ dropped = {}
    /\ \E e \in DOMAIN subscriptions : subscriptions[e] = DOMAIN sessions

(***************************************************************************)
(* Invocations of one execution                                            *)
(***************************************************************************)
\* the invocation ended in a task error or in a fatal error of task
\* preparation or rendering
FailedOrAborted(inv) == inv.state = "Failed" \/ inv.pc = "panicked"

\* C38 as stated: when one invocation of an execution fails or aborts, the
\* invocations spawned for the other tags are not stopped: none of them is
\* taken off the runtime before it has come to its own outcome.
C38_OthersRunOn ==
    \A i, j \in DOMAIN invs :
        (i # j /\ FailedOrAborted(invs[i])) => invs[j].pc # "aborted"

====
